---- MODULE Spec2Model ----
(***************************************************************************)
(* A model of the FCIQMC teaching code of StochasticSchool:                *)
(*   Day3_FCIQMC/exercises/det_ops.py     determinant algebra, the         *)
(*                                        Slater-Condon rules and the      *)
(*                                        random excitation generator      *)
(*   Day3_FCIQMC/exercises/fciqmc_partI.py  the walker evolution loop      *)
(*                                                                         *)
(* Python lists are sequences; a Python index i is position i+1 of the     *)
(* sequence.  Real numbers are exact rationals <<n, d>> with d > 0 in      *)
(* lowest terms (the code uses IEEE doubles; the values of the model are   *)
(* dyadic and small, for which the two agree).                             *)
(***************************************************************************)
EXTENDS Integers, Sequences, FiniteSets, TLC

VARIABLES
    \* ---- elec_exchange_ops, run as its own loop
    xdet,          \* the argument det
    xind,          \* the argument ind
    det_copy,      \* the local det_copy
    xcur,          \* the local ind, as the loop moves it
    step,          \* the local step
    xperm,         \* the local perm
    xpc,           \* "call" | "loop" | "returned" | "IndexError"
    \* ---- HAM.excit_gen and calc_excit_mat_parity
    p_single,      \* self.p_single
    det0,          \* the list excit_gen was called with, as it was at the call
    det,           \* the caller's list det
    excited_det,
    single,
    ind,
    orb_from,
    orb_to,
    orb_from_2,
    orb_to_2,
    perm,
    excit_mat,
    parity,
    prob,
    draws,         \* the accepted draws <<ind, orb_to>> or <<ind, orb_to, ind2, orb_to_2>>
    pair,          \* the second argument of a direct call of calc_excit_mat_parity
    excit_mat_2,   \* what calc_excit_mat_parity returned
    parity_2,
    gpc,           \* position in excit_gen / the unit test around it
    \* ---- HAM.read_in_fcidump and HAM.slater_condon
    fcidump,       \* the integral records of the file not read yet
    nn,            \* self.nn
    h1,            \* self.h1: the entries that are not 0.0
    h2,            \* self.h2: the entries that are not 0.0
    sdet,          \* the arguments of slater_condon
    sexcit_mat,
    sparity,
    hel,           \* what slater_condon returned
    hpc,           \* "reading" | "loaded" | "returned"
    \* ---- fciqmc_partI.py
    ndet,          \* full_h.shape[0]
    full_h,        \* the Hamiltonian matrix, full_h[<<i, j>>]
    timestep,      \* sim_params.timestep
    det_thresh,    \* sim_params.det_thresh
    nwalk_init,    \* sim_params.nwalk_init
    totwalkers,    \* sim_params.totwalkers
    shift,         \* sim_params.shift
    vary_shift,    \* whether the shift is being varied
    walkers,       \* the dictionary walkers, its items in insertion order
    spawned_walkers,
    iters_done,    \* how many values of range(max_iter) the loop has taken
    iter_curr,     \* sim_stats.iter_curr
    items,         \* list(walkers.items()) of line 43
    sweep_pos,     \* the position of the sweep in items, from 1
    det_ind,
    det_amp,
    nspawn,
    spawn_attempt,
    spawn_ind,
    nw,            \* sim_stats.nw
    ref_weight,    \* sim_stats.ref_weight
    nocc_dets,     \* sim_stats.nocc_dets
    cycle_en_num,  \* sim_stats.cycle_en_num
    cycle_en_denom,
    deleted,       \* the determinants line 62 deleted in this sweep
    qpc            \* position in the script

exVars == <<xdet, xind, det_copy, xcur, step, xperm, xpc>>
genVars == <<p_single, det0, det, excited_det, single, ind, orb_from, orb_to, orb_from_2, orb_to_2,
             perm, excit_mat, parity, prob, draws, pair, excit_mat_2, parity_2, gpc>>
hamVars == <<fcidump, nn, h1, h2, sdet, sexcit_mat, sparity, hel, hpc>>
paramVars == <<ndet, full_h, timestep, det_thresh, nwalk_init, totwalkers>>
statVars == <<nw, ref_weight, nocc_dets, cycle_en_num, cycle_en_denom>>
qmcVars == <<paramVars, statVars, shift, vary_shift, walkers, spawned_walkers,
             iters_done, iter_curr, items, sweep_pos, det_ind, det_amp, nspawn,
             spawn_attempt, spawn_ind, deleted, qpc>>
vars == <<exVars, genVars, hamVars, qmcVars>>

----------------------------------------------------------------------------
\* Bounds of the model

\* number of spatial orbitals of the systems explored (self.nbasis)
NBasis == 3

\* largest dimension of the Hamiltonian matrix full_h explored (ndet)
MaxNdet == 3

\* sim_params.max_iter of the runs explored
MaxIter == 2

\* sim_params.stats_cycle of the runs explored
StatsCycle == 2

----------------------------------------------------------------------------
\* Exact rational arithmetic

Abs(n) == IF n < 0 THEN -n ELSE n

RECURSIVE GCD(_, _)
GCD(a, b) == IF b = 0 THEN a ELSE GCD(b, a % b)

\* the rational n/d (d # 0) in lowest terms with a positive denominator
Rat(n, d) ==
    LET s == IF d < 0 THEN -1 ELSE 1
        g == GCD(Abs(n), Abs(d))
    IN  <<(s * n) \div g, (s * d) \div g>>

RInt(n) == <<n, 1>>
RAdd(a, b) == Rat(a[1] * b[2] + b[1] * a[2], a[2] * b[2])
RSub(a, b) == Rat(a[1] * b[2] - b[1] * a[2], a[2] * b[2])
RMul(a, b) == Rat(a[1] * b[1], a[2] * b[2])
RDiv(a, b) == Rat(a[1] * b[2], a[2] * b[1])
RNeg(a) == <<-a[1], a[2]>>
RAbs(a) == <<Abs(a[1]), a[2]>>
RLt(a, b) == a[1] * b[2] < b[1] * a[2]
RSign(a) == IF a[1] > 0 THEN 1 ELSE IF a[1] < 0 THEN -1 ELSE 0
\* the least integer >= a
RCeil(a) == -((-a[1]) \div a[2])

----------------------------------------------------------------------------
\* Python lists

At(s, i) == s[i + 1]
Elems(s) == {s[k] : k \in 1..Len(s)}
RemoveAt(s, k) == [j \in 1..(Len(s) - 1) |-> IF j < k THEN s[j] ELSE s[j + 1]]
SetMin(S) == CHOOSE m \in S : \A x \in S : m <= x

\* sorted(s)
RECURSIVE Sorted(_)
Sorted(s) ==
    IF s = <<>> THEN <<>>
    ELSE LET m == SetMin(Elems(s))
             k == CHOOSE j \in 1..Len(s) : s[j] = m
         IN  <<m>> \o Sorted(RemoveAt(s, k))

IsSorted(s) == \A k \in 1..(Len(s) - 1) : s[k] < s[k + 1]

\* a Python index into a list of length n: negative indices count from the end
PyIndexOk(i, n) == -n <= i /\ i < n
PyPos(i, n) == IF i < 0 THEN i + n + 1 ELSE i + 1

\* every spin-orbital label
Orbs == 0..(2 * NBasis - 1)

\* the ascending list of the members of a set of orbitals
RECURSIVE SeqOfSet(_)
SeqOfSet(S) ==
    IF S = {} THEN <<>>
    ELSE LET m == SetMin(S) IN <<m>> \o SeqOfSet(S \ {m})

\* every determinant: a non-empty ascending duplicate-free list of spin-orbitals
Dets == {SeqOfSet(S) : S \in (SUBSET Orbs) \ {{}}}

----------------------------------------------------------------------------
\* elec_exchange_ops(det, ind)                              det_ops.py 248-273

\* lines 261-266: the direction in which the changed element is moved
InitialStepFlipped(d, i) ==
    IF i = 0 THEN 1
    ELSE IF i = -1 \/ i = Len(d) - 1 THEN -1
    ELSE IF At(d, i) < At(d, i + 1) THEN 1 ELSE -1

InitialStep(d, i) ==
    IF i = 0 THEN 1
    ELSE IF i = -1 \/ i = Len(d) - 1 THEN -1
    ELSE IF At(d, i) > At(d, i + 1) THEN 1 ELSE -1

\* line 267: the loop condition
Unsorted(dc) == dc # Sorted(dc)

\* lines 268-270: exchange det_copy[ind+step] and det_copy[ind]
SwapOk(dc, i, st) == PyIndexOk(i + st, Len(dc)) /\ PyIndexOk(i, Len(dc))
Swap(dc, i, st) ==
    LET a == PyPos(i, Len(dc))
        b == PyPos(i + st, Len(dc))
    IN  [dc EXCEPT ![b] = dc[a], ![a] = dc[b]]

\* lines 267-273 run to completion; -1 stands for the IndexError of line 268
RECURSIVE ExchangeLoop(_, _, _, _)
ExchangeLoop(dc, i, st, p) ==
    IF ~Unsorted(dc) THEN p
    ELSE IF ~SwapOk(dc, i, st) THEN -1
    ELSE ExchangeLoop(Swap(dc, i, st), i + st, st, p + 1)

elec_exchange_ops(d, i) == ExchangeLoop(d, i, InitialStep(d, i), 0)

\* the same function, one loop iteration per step
ExchangeCall ==
    /\ xpc = "call"
    /\ det_copy' = xdet
    /\ xcur' = xind
    /\ step' = InitialStep(xdet, xind)
    /\ xperm' = 0
    /\ xpc' = "loop"
    /\ UNCHANGED <<xdet, xind, genVars, hamVars, qmcVars>>

ExchangeSwap ==
    /\ xpc = "loop"
    /\ Unsorted(det_copy)
    /\ IF SwapOk(det_copy, xcur, step)
       THEN /\ det_copy' = Swap(det_copy, xcur, step)
            /\ xcur' = xcur + step
            /\ xperm' = xperm + 1
            /\ xpc' = "loop"
       ELSE /\ xpc' = "IndexError"
            /\ UNCHANGED <<det_copy, xcur, xperm>>
    /\ UNCHANGED <<xdet, xind, step, genVars, hamVars, qmcVars>>

ExchangeReturn ==
    /\ xpc = "loop"
    /\ ~Unsorted(det_copy)
    /\ xpc' = "returned"
    /\ UNCHANGED <<xdet, xind, det_copy, xcur, step, xperm, genVars, hamVars, qmcVars>>

\* a list that is ascending apart from the element at position i: a
\* determinant in which one orbital was overwritten by one it did not hold
OnceChanged ==
    {<<[d EXCEPT ![i + 1] = v], i>> :
        <<d, i, v>> \in {t \in Dets \X (0..(2 * NBasis - 1)) \X Orbs :
                            /\ t[2] < Len(t[1])
                            /\ t[3] \notin (Elems(t[1]) \ {At(t[1], t[2])})}}

ExchangeIdle ==
    /\ xdet = <<>> /\ xind = 0 /\ det_copy = <<>> /\ xcur = 0
    /\ step = 0 /\ xperm = 0 /\ xpc = "idle"

GenIdle ==
    /\ p_single = <<0, 1>> /\ det0 = <<>>
    /\ det = <<>> /\ excited_det = <<>> /\ single = FALSE /\ ind = 0
    /\ orb_from = 0 /\ orb_to = 0 /\ orb_from_2 = 0 /\ orb_to_2 = 0
    /\ perm = 0 /\ excit_mat = <<>> /\ parity = 0 /\ prob = <<0, 1>>
    /\ draws = <<>> /\ pair = <<>> /\ excit_mat_2 = <<>> /\ parity_2 = 0
    /\ gpc = "idle"

HamIdle ==
    /\ fcidump = <<>> /\ nn = 0 /\ h1 = <<>> /\ h2 = <<>>
    /\ sdet = <<>> /\ sexcit_mat = <<>> /\ sparity = 0 /\ hel = 0
    /\ hpc = "idle"

QmcIdle ==
    /\ ndet = 0 /\ full_h = <<>> /\ timestep = <<0, 1>> /\ det_thresh = <<0, 1>>
    /\ nwalk_init = <<0, 1>> /\ totwalkers = <<0, 1>> /\ shift = <<0, 1>>
    /\ vary_shift = FALSE /\ walkers = <<>> /\ spawned_walkers = <<>>
    /\ iters_done = 0 /\ iter_curr = 0 /\ items = <<>> /\ sweep_pos = 0
    /\ det_ind = 0 /\ det_amp = <<0, 1>> /\ nspawn = 0 /\ spawn_attempt = 0
    /\ spawn_ind = 0 /\ nw = <<0, 1>> /\ ref_weight = <<0, 1>> /\ nocc_dets = 0
    /\ cycle_en_num = <<0, 1>> /\ cycle_en_denom = <<0, 1>> /\ deleted = {}
    /\ qpc = "idle"

InitExchange ==
    /\ \E c \in OnceChanged : xdet = c[1] /\ xind = c[2]
    /\ det_copy = <<>> /\ xcur = 0 /\ step = 0 /\ xperm = 0 /\ xpc = "call"
    /\ GenIdle
    /\ HamIdle
    /\ QmcIdle

NextExchange == ExchangeCall \/ ExchangeSwap \/ ExchangeReturn

SpecExchange == InitExchange /\ [][NextExchange]_vars

----------------------------------------------------------------------------
\* HAM.excit_gen(det)                                       det_ops.py 204-246

\* the value of self.p_single explored: the one of the unit tests (line 375)
PSingles == {<<1, 10>>}

\* Python's None, as a descriptor and as a parity
None == <<"None">>
ParityNone == 0

\* self.nelec (line 72): the determinants of a system hold self.nelec electrons
nelec == Len(det)

\* scipy.special.comb(n, k)
RECURSIVE comb(_, _)
comb(n, k) ==
    IF k = 0 THEN 1
    ELSE IF n < k THEN 0
    ELSE comb(n - 1, k - 1) + comb(n - 1, k)

\* (-1)**perm
MinusOneTo(p) == IF p % 2 = 0 THEN 1 ELSE -1

\* lines 215 and 223: excited_det is a copy of det, so the store
\* excited_det[ind] = orb_to leaves the caller's list alone
StoreFirst(d, i, v) ==
    [caller |-> d, local |-> [d EXCEPT ![i + 1] = v]]

\* line 221: the first orbital is drawn again while this holds
FirstRejected(d, ot) == ot \in Elems(d)

\* line 235: both second draws are made again while this holds
SecondRejectedNoFromCheck(ed, of, ot, of2, ot2) ==
    (ot2 \in Elems(ed)) \/ (of2 = ot)

SecondRejectedNoToCheck(ed, of, ot, of2, ot2) ==
    (ot2 \in Elems(ed)) \/ (ot2 = of)

SecondRejected(ed, of, ot, of2, ot2) ==
    (ot2 \in Elems(ed)) \/ (ot2 = of) \/ (of2 = ot)

\* lines 223-225 and 240-244: overwrite position i, count the exchanges, sort
Substitute(ed, i, v) ==
    LET changed == [ed EXCEPT ![i + 1] = v]
    IN  [det |-> Sorted(changed), perm |-> elec_exchange_ops(changed, i)]

\* lines 229 and 243: the probability reported
SingleProb == RDiv(p_single, RInt(nelec * (2 * NBasis - nelec)))
DoubleProb ==
    RDiv(RSub(RInt(1), p_single),
         RInt(comb(2 * NBasis - nelec, 2) * comb(nelec, 2)))

\* lines 215-220
ExcitGenDraw ==
    /\ gpc = "start"
    /\ excited_det' = det
    /\ single' \in BOOLEAN
    /\ \E i \in 0..(Len(det) - 1) :
          /\ ind' = i
          /\ orb_from' = At(det, i)
    /\ orb_to' \in Orbs
    /\ gpc' = "first_loop"
    /\ UNCHANGED <<p_single, det0, det, orb_from_2, orb_to_2, perm, excit_mat,
                   parity, prob, draws, pair, excit_mat_2, parity_2, exVars, hamVars, qmcVars>>

\* lines 221-222
ResampleFirst ==
    /\ gpc = "first_loop"
    /\ FirstRejected(det, orb_to)
    /\ orb_to' \in Orbs
    /\ UNCHANGED <<p_single, det0, det, excited_det, single, ind, orb_from,
                   orb_from_2, orb_to_2, perm, excit_mat, parity, prob, draws,
                   pair, excit_mat_2, parity_2, gpc, exVars, hamVars, qmcVars>>

\* lines 223-229 and 246 when a single was chosen
FinishSingle ==
    /\ gpc = "first_loop"
    /\ ~FirstRejected(det, orb_to)
    /\ single
    /\ LET st == StoreFirst(det, ind, orb_to)
           r == Substitute(excited_det, ind, orb_to)
       IN  /\ det' = st.caller
           /\ excited_det' = r.det
           /\ perm' = r.perm
           /\ parity' = MinusOneTo(r.perm)
    /\ excit_mat' = <<(<<orb_from>>), (<<orb_to>>)>>
    /\ prob' = SingleProb
    /\ draws' = <<ind, orb_to>>
    /\ gpc' = "returned"
    /\ UNCHANGED <<p_single, det0, single, ind, orb_from, orb_to, orb_from_2,
                   orb_to_2, pair, excit_mat_2, parity_2, exVars, hamVars, qmcVars>>

\* lines 223-225 and 232-234 when a double was chosen
BeginDouble ==
    /\ gpc = "first_loop"
    /\ ~FirstRejected(det, orb_to)
    /\ ~single
    /\ LET st == StoreFirst(det, ind, orb_to)
           r == Substitute(excited_det, ind, orb_to)
       IN  /\ det' = st.caller
           /\ excited_det' = r.det
           /\ perm' = r.perm
           /\ \E i \in 0..(Len(r.det) - 1) :
                 /\ ind' = i
                 /\ orb_from_2' = At(r.det, i)
    /\ orb_to_2' \in Orbs
    /\ draws' = <<ind, orb_to>>
    /\ gpc' = "second_loop"
    /\ UNCHANGED <<p_single, det0, single, orb_from, orb_to, excit_mat, parity,
                   prob, pair, excit_mat_2, parity_2, exVars, hamVars, qmcVars>>

\* lines 235-239
ResampleSecond ==
    /\ gpc = "second_loop"
    /\ SecondRejected(excited_det, orb_from, orb_to, orb_from_2, orb_to_2)
    /\ \E i \in 0..(Len(excited_det) - 1) :
          /\ ind' = i
          /\ orb_from_2' = At(excited_det, i)
    /\ orb_to_2' \in Orbs
    /\ UNCHANGED <<p_single, det0, det, excited_det, single, orb_from, orb_to,
                   perm, excit_mat, parity, prob, draws, pair, excit_mat_2,
                   parity_2, gpc, exVars, hamVars, qmcVars>>

\* lines 240-246
FinishDouble ==
    /\ gpc = "second_loop"
    /\ ~SecondRejected(excited_det, orb_from, orb_to, orb_from_2, orb_to_2)
    /\ LET r == Substitute(excited_det, ind, orb_to_2)
       IN  /\ excited_det' = r.det
           /\ perm' = perm + r.perm
           /\ parity' = MinusOneTo(perm + r.perm)
    /\ excit_mat' = <<(<<orb_from, orb_from_2>>), (<<orb_to, orb_to_2>>)>>
    /\ prob' = DoubleProb
    /\ draws' = draws \o <<ind, orb_to_2>>
    /\ gpc' = "returned"
    /\ UNCHANGED <<p_single, det0, det, single, ind, orb_from, orb_to,
                   orb_from_2, orb_to_2, pair, excit_mat_2, parity_2, exVars, hamVars, qmcVars>>

----------------------------------------------------------------------------
\* calc_excit_mat_parity(det, excited_det)                  det_ops.py 275-312

\* lines 281-293: the orbitals of a that are not in b, in the order of a
OrbsNotIn(a, b) == SelectSeq(a, LAMBDA o : o \notin Elems(b))

\* det_copy.index(from_orb)
IndexOf(s, v) == (CHOOSE k \in 1..Len(s) : s[k] = v) - 1

\* lines 299-305: the exchanges of the substitutions made one after the other
RECURSIVE SubstitutionPermsLastOnly(_, _, _, _)
SubstitutionPermsLastOnly(dc, from_orbs, to_orbs, p) ==
    IF from_orbs = <<>> \/ to_orbs = <<>> THEN p
    ELSE LET r == Substitute(dc, IndexOf(dc, Head(from_orbs)), Head(to_orbs))
         IN  SubstitutionPermsLastOnly(r.det, Tail(from_orbs), Tail(to_orbs), r.perm)

RECURSIVE SubstitutionPerms(_, _, _, _)
SubstitutionPerms(dc, from_orbs, to_orbs, p) ==
    IF from_orbs = <<>> \/ to_orbs = <<>> THEN p
    ELSE LET r == Substitute(dc, IndexOf(dc, Head(from_orbs)), Head(to_orbs))
         IN  SubstitutionPerms(r.det, Tail(from_orbs), Tail(to_orbs), p + r.perm)

\* line 309: not list(excit_mat), excit_mat being the list of the two tuples
NotList(em) == Len(em) = 0

\* lines 275-312 without the assertion of line 296
CalcWithoutAssert(d, ed) ==
    LET from_orbs == OrbsNotIn(d, ed)
        to_orbs == OrbsNotIn(ed, d)
        em == <<from_orbs, to_orbs>>
        par == MinusOneTo(SubstitutionPerms(d, from_orbs, to_orbs, 0))
    IN  IF NotList(em)
        THEN [raised |-> "", excit_mat |-> None, parity |-> ParityNone]
        ELSE [raised |-> "", excit_mat |-> em, parity |-> par]

calc_excit_mat_parity(d, ed) ==
    LET from_orbs == OrbsNotIn(d, ed)
        to_orbs == OrbsNotIn(ed, d)
        em == <<from_orbs, to_orbs>>
        par == MinusOneTo(SubstitutionPerms(d, from_orbs, to_orbs, 0))
    IN  IF Len(from_orbs) # Len(to_orbs)
        THEN [raised |-> "AssertionError", excit_mat |-> None, parity |-> ParityNone]
        ELSE IF NotList(em)
        THEN [raised |-> "", excit_mat |-> None, parity |-> ParityNone]
        ELSE [raised |-> "", excit_mat |-> em, parity |-> par]

\* lines 413-417 of the unit tests: the descriptor of an excitation that
\* excit_gen made is computed again from the two determinants
RecomputeExcitation ==
    /\ gpc = "returned"
    /\ LET r == calc_excit_mat_parity(det, excited_det)
       IN  /\ excit_mat_2' = r.excit_mat
           /\ parity_2' = r.parity
           /\ gpc' = IF r.raised = "" THEN "recomputed" ELSE r.raised
    /\ pair' = excited_det
    /\ UNCHANGED <<p_single, det0, det, excited_det, single, ind, orb_from,
                   orb_to, orb_from_2, orb_to_2, perm, excit_mat, parity, prob,
                   draws, exVars, hamVars, qmcVars>>

\* a call of calc_excit_mat_parity with any two determinants
CalcExcitMatParity ==
    /\ gpc = "start"
    /\ \E ed \in Dets :
          LET r == calc_excit_mat_parity(det, ed)
          IN  /\ pair' = ed
              /\ excit_mat_2' = r.excit_mat
              /\ parity_2' = r.parity
              /\ gpc' = IF r.raised = "" THEN "calc_returned" ELSE r.raised
    /\ UNCHANGED <<p_single, det0, det, excited_det, single, ind, orb_from,
                   orb_to, orb_from_2, orb_to_2, perm, excit_mat, parity, prob,
                   draws, exVars, hamVars, qmcVars>>

InitExcit ==
    /\ p_single \in PSingles
    /\ det \in Dets
    /\ det0 = det
    /\ excited_det = <<>> /\ single = FALSE /\ ind = 0
    /\ orb_from = 0 /\ orb_to = 0 /\ orb_from_2 = 0 /\ orb_to_2 = 0
    /\ perm = 0 /\ excit_mat = <<>> /\ parity = 0 /\ prob = <<0, 1>>
    /\ draws = <<>> /\ pair = <<>> /\ excit_mat_2 = <<>> /\ parity_2 = 0
    /\ gpc = "start"
    /\ ExchangeIdle
    /\ HamIdle
    /\ QmcIdle

NextExcit ==
    \/ ExcitGenDraw
    \/ ResampleFirst
    \/ FinishSingle
    \/ BeginDouble
    \/ ResampleSecond
    \/ FinishDouble
    \/ RecomputeExcitation

SpecExcit == InitExcit /\ [][NextExcit]_vars

\* calc_excit_mat_parity called with any two determinants
NextCalc == CalcExcitMatParity

SpecCalc == InitExcit /\ [][NextCalc]_vars

----------------------------------------------------------------------------
\* HAM.read_in_fcidump(filename), the integral records       det_ops.py 95-157

\* self.h1 and self.h2 are made by np.zeros (lines 96 and 98): an entry the
\* model does not hold is 0.0
Entry(h, key) == IF key \in DOMAIN h THEN h[key] ELSE 0

\* h[key] = v for every key of keys
Assign(h, keys, v) ==
    LET dom == IF v = 0 THEN (DOMAIN h) \ keys ELSE (DOMAIN h) \cup keys
    IN  [k \in dom |-> IF k \in keys THEN v ELSE h[k]]

\* lines 109-112 only: the orders that keep the two pairs in their places
SpatialOrdersNoPairSwap(i, j, k, l) ==
    {<<i, j, k, l>>, <<j, i, k, l>>, <<i, j, l, k>>, <<j, i, l, k>>}

\* lines 109-116: the eight index orders of one two-electron integral
SpatialOrders(i, j, k, l) ==
    {<<i, j, k, l>>, <<j, i, k, l>>, <<i, j, l, k>>, <<j, i, l, k>>,
     <<k, l, i, j>>, <<l, k, i, j>>, <<k, l, j, i>>, <<l, k, j, i>>}

\* lines 109-146: the four spin blocks the eight orders are written to
TwoElectronKeys(i, j, k, l) ==
    {<<q[1] + s1, q[2] + s1, q[3] + s2, q[4] + s2>> :
        <<q, s1, s2>> \in SpatialOrders(i, j, k, l) \X {0, NBasis} \X {0, NBasis}}

\* lines 150-153
OneElectronKeys(i, j) ==
    {<<i, j>>, <<j, i>>, <<i + NBasis, j + NBasis>>, <<j + NBasis, i + NBasis>>}

\* lines 101-156: one record <<value, ii, jj, kk, ll>> of the file
ReadTwoElectron(h, dat) ==
    IF dat[4] # 0
    THEN Assign(h, TwoElectronKeys(dat[2] - 1, dat[3] - 1, dat[4] - 1, dat[5] - 1), dat[1])
    ELSE h

ReadOneElectron(h, dat) ==
    IF dat[4] = 0 /\ dat[3] # 0
    THEN Assign(h, OneElectronKeys(dat[2] - 1, dat[3] - 1), dat[1])
    ELSE h

ReadNuclear(e, dat) == IF dat[4] = 0 /\ dat[3] = 0 THEN dat[1] ELSE e

\* lines 100-157, one iteration of the reading loop
ReadRecord ==
    /\ hpc = "reading"
    /\ fcidump # <<>>
    /\ LET dat == Head(fcidump)
       IN  /\ h2' = ReadTwoElectron(h2, dat)
           /\ h1' = ReadOneElectron(h1, dat)
           /\ nn' = ReadNuclear(nn, dat)
    /\ fcidump' = Tail(fcidump)
    /\ UNCHANGED <<sdet, sexcit_mat, sparity, hel, hpc, exVars, genVars, qmcVars>>

\* lines 157-161: the end of the file
FinishReading ==
    /\ hpc = "reading"
    /\ fcidump = <<>>
    /\ hpc' = "loaded"
    /\ UNCHANGED <<fcidump, nn, h1, h2, sdet, sexcit_mat, sparity, hel, exVars, genVars, qmcVars>>

\* the integral files explored: records <<value, i, j, k, l>> with the
\* 1-based labels of spatial orbitals, the last of them a nuclear repulsion
Fcidumps ==
    {<< <<2, 1, 1, 1, 1>>, <<-1, 2, 1, 1, 1>>, <<1, 2, 1, 2, 1>>,
        <<3, 2, 2, 1, 1>>, <<2, 2, 2, 2, 2>>, <<1, NBasis, 2, 2, 1>>,
        <<-2, 1, 1, 0, 0>>, <<1, 2, 1, 0, 0>>, <<-1, 2, 2, 0, 0>>,
        <<1, 0, 0, 0, 0>> >>,
     << <<1, 1, 1, 1, 1>>, <<2, 2, 1, 2, 1>>, <<1, 2, 2, 1, 1>>,
        <<-1, NBasis, 1, 2, 1>>, <<3, NBasis, NBasis, 1, 1>>,
        <<-3, 1, 1, 0, 0>>, <<2, NBasis, 1, 0, 0>>,
        <<2, 0, 0, 0, 0>> >>}

----------------------------------------------------------------------------
\* HAM.slater_condon(det, excited_det, excit_mat, parity)   det_ops.py 163-202

\* lines 178-182: the diagonal element, det being read from position pos on
RECURSIVE DiagonalPairs(_, _, _)
DiagonalPairs(d, p, rest) ==
    IF rest = <<>> THEN 0
    ELSE Entry(h2, <<p, p, Head(rest), Head(rest)>>)
            - Entry(h2, <<p, Head(rest), Head(rest), p>>)
            + DiagonalPairs(d, p, Tail(rest))

RECURSIVE DiagonalFrom(_, _)
DiagonalFrom(d, pos) ==
    IF pos >= Len(d) THEN 0
    ELSE Entry(h1, <<At(d, pos), At(d, pos)>>)
            + DiagonalPairs(d, At(d, pos), SubSeq(d, pos + 2, Len(d)))
            + DiagonalFrom(d, pos + 1)

DiagonalElement(d) == nn + DiagonalFrom(d, 0)

\* lines 186-189
RECURSIVE SingleSum(_, _, _)
SingleSum(i, a, rest) ==
    IF rest = <<>> THEN 0
    ELSE Entry(h2, <<i, a, Head(rest), Head(rest)>>)
            - Entry(h2, <<i, Head(rest), Head(rest), a>>)
            + SingleSum(i, a, Tail(rest))

SingleElement(d, em) ==
    Entry(h1, <<em[1][1], em[2][1]>>) + SingleSum(em[1][1], em[2][1], d)

\* lines 193-194
DoubleElementNoExchange(em) ==
    Entry(h2, <<em[1][1], em[2][1], em[1][2], em[2][2]>>)

DoubleElement(em) ==
    Entry(h2, <<em[1][1], em[2][1], em[1][2], em[2][2]>>)
        - Entry(h2, <<em[1][1], em[2][2], em[1][2], em[2][1]>>)

\* lines 176-202
slater_condon(d, em, par) ==
    LET e == IF em = None THEN DiagonalElement(d)
             ELSE IF Len(em[1]) = 1 THEN SingleElement(d, em)
             ELSE IF Len(em[1]) = 2 THEN DoubleElement(em)
             ELSE 0
    IN  IF par # ParityNone THEN e * par ELSE e

\* the descriptors slater_condon is called with for a determinant d: none,
\* the singles and doubles out of d, the empty descriptor and one triple
Prefix(q, n) == SubSeq(q, 1, n)
Descriptors(d) ==
    LET occ == Elems(d)
        unocc == Orbs \ occ
        vac == SeqOfSet(unocc)
    IN  {None, <<(<<>>), (<<>>)>>}
        \cup {<<(<<i>>), (<<a>>)>> : <<i, a>> \in occ \X unocc}
        \cup {<<(<<q[1], q[2]>>), (<<q[3], q[4]>>)>> :
                q \in {r \in occ \X occ \X unocc \X unocc :
                            r[1] # r[2] /\ r[3] # r[4]}}
        \cup (IF Len(d) >= 3 /\ Len(vac) >= 3
              THEN {<<Prefix(d, 3), Prefix(vac, 3)>>} ELSE {})

SlaterCondon ==
    /\ hpc = "loaded"
    /\ \E d \in Dets :
          \E em \in Descriptors(d) :
             \E par \in {ParityNone, 1, -1} :
                /\ sdet' = d
                /\ sexcit_mat' = em
                /\ sparity' = par
                /\ hel' = slater_condon(d, em, par)
    /\ hpc' = "returned"
    /\ UNCHANGED <<fcidump, nn, h1, h2, exVars, genVars, qmcVars>>

InitHam ==
    /\ fcidump \in Fcidumps
    /\ nn = 0 /\ h1 = <<>> /\ h2 = <<>>
    /\ sdet = <<>> /\ sexcit_mat = <<>> /\ sparity = 0 /\ hel = 0
    /\ hpc = "reading"
    /\ ExchangeIdle
    /\ GenIdle
    /\ QmcIdle

NextHam == ReadRecord \/ FinishReading \/ SlaterCondon

SpecHam == InitHam /\ [][NextHam]_vars

\* every integral record of value v with labels in 1..nbasis: two-electron,
\* one-electron and nuclear repulsion
Records(v) ==
    {<<v, i, j, k, l>> : <<i, j, k, l>> \in
        (1..NBasis) \X (1..NBasis) \X (1..NBasis) \X (1..NBasis)}
    \cup {<<v, i, j, 0, 0>> : <<i, j>> \in (1..NBasis) \X (1..NBasis)}
    \cup {<<v, 0, 0, 0, 0>>}

\* read_in_fcidump on a file of any two records, the second of another value
InitRead ==
    /\ fcidump \in Records(1) \X Records(2)
    /\ nn = 0 /\ h1 = <<>> /\ h2 = <<>>
    /\ sdet = <<>> /\ sexcit_mat = <<>> /\ sparity = 0 /\ hel = 0
    /\ hpc = "reading"
    /\ ExchangeIdle
    /\ GenIdle
    /\ QmcIdle

NextRead == ReadRecord \/ FinishReading

SpecRead == InitRead /\ [][NextRead]_vars

----------------------------------------------------------------------------
\* fciqmc_partI.py: the evolution loop

\* Python dictionaries: the items <<key, value>> in insertion order
DictHas(dct, k) == \E n \in 1..Len(dct) : dct[n][1] = k
DictGet(dct, k) == dct[CHOOSE n \in 1..Len(dct) : dct[n][1] = k][2]
DictKeys(dct) == {dct[n][1] : n \in 1..Len(dct)}
DictSet(dct, k, v) ==
    IF DictHas(dct, k)
    THEN [n \in 1..Len(dct) |-> IF dct[n][1] = k THEN <<k, v>> ELSE dct[n]]
    ELSE Append(dct, <<k, v>>)
DictDel(dct, k) == SelectSeq(dct, LAMBDA e : e[1] # k)

\* the parameters of the runs explored (line 21 sets those of the script)
Timesteps == {<<0, 1>>, <<1, 8>>}
DetThresh == <<1, 4>>
InitWalkers == {<<1, 1>>, <<1, 8>>}
TotWalkers == <<1, 1>>
InitShift == <<0, 1>>
max_iter == MaxIter
stats_cycle == StatsCycle

\* the Hamiltonian matrices explored (line 5 loads the one of the script):
\* symmetric, with a rising diagonal, all determinants coupled or only 0 and 1
Coupled(n) ==
    [ij \in (0..(n - 1)) \X (0..(n - 1)) |->
        IF ij[1] = ij[2] THEN 2 * ij[1] - 1 ELSE -1]
Sparse(n) ==
    [ij \in (0..(n - 1)) \X (0..(n - 1)) |->
        IF ij[1] = ij[2] THEN 2 * ij[1] - 1
        ELSE IF ij[1] + ij[2] = 1 THEN 1 ELSE 0]

\* line 17: h_sim = full_h - np.eye(ndet)*ref_energy
h_sim(i, j) ==
    IF i = j THEN full_h[<<i, j>>] - full_h[<<0, 0>>] ELSE full_h[<<i, j>>]

\* lines 34-39
BeginIteration ==
    /\ qpc = "iter_head"
    /\ iters_done < max_iter
    /\ iter_curr' = iters_done
    /\ spawned_walkers' = <<>>
    /\ nw' = <<0, 1>>
    /\ ref_weight' = <<0, 1>>
    /\ nocc_dets' = 0
    /\ items' = walkers
    /\ sweep_pos' = 1
    /\ deleted' = {}
    /\ qpc' = "sweep"
    /\ UNCHANGED <<paramVars, cycle_en_num, cycle_en_denom, shift, vary_shift,
                   walkers, iters_done, det_ind, det_amp, nspawn, spawn_attempt,
                   spawn_ind, exVars, genVars, hamVars>>

\* lines 34 and 105-106: range(max_iter) is exhausted
EndLoop ==
    /\ qpc = "iter_head"
    /\ iters_done >= max_iter
    /\ qpc' = "done"
    /\ UNCHANGED <<paramVars, statVars, shift, vary_shift, walkers,
                   spawned_walkers, iters_done, iter_curr, items, sweep_pos,
                   det_ind, det_amp, nspawn, spawn_attempt, spawn_ind, deleted,
                   exVars, genVars, hamVars>>

\* lines 43-51: the next item of the snapshot and its share of the energy
ProcessDet ==
    /\ qpc = "sweep"
    /\ sweep_pos <= Len(items)
    /\ LET d == items[sweep_pos][1]
           a == items[sweep_pos][2]
       IN  /\ det_ind' = d
           /\ det_amp' = a
           /\ IF d = 0
              THEN /\ cycle_en_denom' = RAdd(cycle_en_denom, a)
                   /\ ref_weight' = a
                   /\ UNCHANGED cycle_en_num
              ELSE /\ cycle_en_num' = RAdd(cycle_en_num, RMul(a, RInt(h_sim(d, 0))))
                   /\ UNCHANGED <<cycle_en_denom, ref_weight>>
    /\ qpc' = "round"
    /\ UNCHANGED <<paramVars, nw, nocc_dets, shift, vary_shift, walkers,
                   spawned_walkers, iters_done, iter_curr, items, sweep_pos,
                   nspawn, spawn_attempt, spawn_ind, deleted,
                   exVars, genVars, hamVars>>

\* line 56
chi_fraction(amp) == RDiv(RAbs(amp), det_thresh)

\* line 59: np.random.random() is in [0, 1): some draw is below chi
CanKeepAtZero(chi) == ~RLt(chi, <<0, 1>>)
CanKeep(chi) == RLt(<<0, 1>>, chi)
\* line 59: some draw is not below chi
CanDelete(chi) == RLt(chi, <<1, 1>>)

\* line 60: the amplitude of a walker that is kept
PromotedAmp(amp) == det_thresh

\* line 72
NSpawn(amp) == RCeil(RAbs(amp))

\* lines 67-72, for the amplitude amp
Survive(amp) ==
    /\ det_amp' = amp
    /\ nw' = RAdd(nw, RAbs(amp))
    /\ nocc_dets' = nocc_dets + 1
    /\ nspawn' = NSpawn(amp)
    /\ spawn_attempt' = 0
    /\ qpc' = "spawn"
    /\ UNCHANGED <<paramVars, ref_weight, cycle_en_num, cycle_en_denom, shift,
                   vary_shift, walkers, spawned_walkers, iters_done, iter_curr,
                   items, sweep_pos, det_ind, spawn_ind, deleted,
                   exVars, genVars, hamVars>>

\* lines 56-57 and 67-72: the walker is at or above the threshold
RoundNotNeeded ==
    /\ qpc = "round"
    /\ ~RLt(chi_fraction(det_amp), <<1, 1>>)
    /\ Survive(det_amp)

\* lines 56-60 and 67-72: the walker is below the threshold and is kept
RoundUp ==
    /\ qpc = "round"
    /\ RLt(chi_fraction(det_amp), <<1, 1>>)
    /\ CanKeep(chi_fraction(det_amp))
    /\ Survive(PromotedAmp(det_amp))

\* lines 56-63: the walker is below the threshold and is deleted
RoundDown ==
    /\ qpc = "round"
    /\ RLt(chi_fraction(det_amp), <<1, 1>>)
    /\ CanDelete(chi_fraction(det_amp))
    /\ walkers' = DictDel(walkers, det_ind)
    /\ deleted' = deleted \cup {det_ind}
    /\ sweep_pos' = sweep_pos + 1
    /\ qpc' = "sweep"
    /\ UNCHANGED <<paramVars, statVars, shift, vary_shift, spawned_walkers,
                   iters_done, iter_curr, items, det_ind, det_amp, nspawn,
                   spawn_attempt, spawn_ind, exVars, genVars, hamVars>>

\* lines 73-74
SpawnDraw ==
    /\ qpc = "spawn"
    /\ spawn_attempt < nspawn
    /\ spawn_ind' \in 0..(ndet - 1)
    /\ qpc' = "resample"
    /\ UNCHANGED <<paramVars, statVars, shift, vary_shift, walkers,
                   spawned_walkers, iters_done, iter_curr, items, sweep_pos,
                   det_ind, det_amp, nspawn, spawn_attempt, deleted,
                   exVars, genVars, hamVars>>

\* lines 75-76
Resample ==
    /\ qpc = "resample"
    /\ spawn_ind = det_ind
    /\ spawn_ind' \in 0..(ndet - 1)
    /\ UNCHANGED <<paramVars, statVars, shift, vary_shift, walkers,
                   spawned_walkers, iters_done, iter_curr, items, sweep_pos,
                   det_ind, det_amp, nspawn, spawn_attempt, deleted, qpc,
                   exVars, genVars, hamVars>>

\* lines 77-78
SpawnWeight(d, t, amp, n) ==
    LET p_spawn == Rat(1, ndet - 1)
    IN  RDiv(RMul(RMul(RNeg(timestep), RInt(full_h[<<d, t>>])), amp),
             RMul(p_spawn, RInt(n)))

\* lines 79-82
AddSpawn(sw, t, w) ==
    IF DictHas(sw, t) THEN DictSet(sw, t, RAdd(DictGet(sw, t), w))
    ELSE DictSet(sw, t, w)

\* lines 77-82
SpawnAdd ==
    /\ qpc = "resample"
    /\ spawn_ind # det_ind
    /\ spawned_walkers' =
          AddSpawn(spawned_walkers, spawn_ind,
                   SpawnWeight(det_ind, spawn_ind, det_amp, nspawn))
    /\ spawn_attempt' = spawn_attempt + 1
    /\ qpc' = "spawn"
    /\ UNCHANGED <<paramVars, statVars, shift, vary_shift, walkers, iters_done,
                   iter_curr, items, sweep_pos, det_ind, det_amp, nspawn,
                   spawn_ind, deleted, exVars, genVars, hamVars>>

\* line 87: the weight stored for det d after the death step
DeathWeightFromAmp(d, amp) ==
    RSub(amp,
         RMul(RMul(timestep,
                   RSub(RInt(full_h[<<d, d>>] - full_h[<<0, 0>>]), shift)),
              amp))

DeathWeight(d, amp) ==
    RSub(DictGet(walkers, d),
         RMul(RMul(timestep,
                   RSub(RInt(full_h[<<d, d>>] - full_h[<<0, 0>>]), shift)),
              amp))

\* lines 73 and 87: the spawning attempts are over
Death ==
    /\ qpc = "spawn"
    /\ spawn_attempt >= nspawn
    /\ walkers' = DictSet(walkers, det_ind, DeathWeight(det_ind, det_amp))
    /\ sweep_pos' = sweep_pos + 1
    /\ qpc' = "sweep"
    /\ UNCHANGED <<paramVars, statVars, shift, vary_shift, spawned_walkers,
                   iters_done, iter_curr, items, det_ind, det_amp, nspawn,
                   spawn_attempt, spawn_ind, deleted, exVars, genVars, hamVars>>

\* lines 91-95, the spawned weight stored over the weight of the target
RECURSIVE MergeReplace(_, _)
MergeReplace(w, sw) ==
    IF sw = <<>> THEN w
    ELSE MergeReplace(DictSet(w, Head(sw)[1], Head(sw)[2]), Tail(sw))

\* lines 91-95
RECURSIVE Merge(_, _)
Merge(w, sw) ==
    IF sw = <<>> THEN w
    ELSE LET t == Head(sw)[1]
             x == Head(sw)[2]
         IN  Merge(IF DictHas(w, t) THEN DictSet(w, t, RAdd(DictGet(w, t), x))
                   ELSE DictSet(w, t, x),
                   Tail(sw))

\* lines 43 and 91-95: the sweep is over
Annihilate ==
    /\ qpc = "sweep"
    /\ sweep_pos > Len(items)
    /\ walkers' = Merge(walkers, spawned_walkers)
    /\ qpc' = "control"
    /\ UNCHANGED <<paramVars, statVars, shift, vary_shift, spawned_walkers,
                   iters_done, iter_curr, items, sweep_pos, det_ind, det_amp,
                   nspawn, spawn_attempt, spawn_ind, deleted,
                   exVars, genVars, hamVars>>

\* sim_params.update_shift(sim_stats): the shift starts to vary once the walker
\* count exceeds the target, and is then moved by
\* (shift_damp / (stats_cycle * timestep)) * ln(nw / nw_previous), a real
\* number the model replaces by a choice among ShiftValues
ShiftValues == {<<0, 1>>, <<-1, 1>>}
update_shift ==
    /\ vary_shift' = (vary_shift \/ RLt(totwalkers, nw))
    /\ IF vary_shift' THEN shift' \in ShiftValues ELSE shift' = shift

\* sim_stats.update_stats(sim_params): the record is written and the sums of
\* the cycle start again
update_stats ==
    /\ cycle_en_num' = <<0, 1>>
    /\ cycle_en_denom' = <<0, 1>>

\* lines 98-103
PeriodicControl ==
    /\ qpc = "control"
    /\ iter_curr % stats_cycle = 0
    /\ update_shift
    /\ update_stats
    /\ iters_done' = iters_done + 1
    /\ qpc' = "iter_head"
    /\ UNCHANGED <<paramVars, nw, ref_weight, nocc_dets, walkers,
                   spawned_walkers, iter_curr, items, sweep_pos, det_ind,
                   det_amp, nspawn, spawn_attempt, spawn_ind, deleted,
                   exVars, genVars, hamVars>>

\* line 98, not a reporting iteration
SkipControl ==
    /\ qpc = "control"
    /\ iter_curr % stats_cycle # 0
    /\ iters_done' = iters_done + 1
    /\ qpc' = "iter_head"
    /\ UNCHANGED <<paramVars, statVars, shift, vary_shift, walkers,
                   spawned_walkers, iter_curr, items, sweep_pos, det_ind,
                   det_amp, nspawn, spawn_attempt, spawn_ind, deleted,
                   exVars, genVars, hamVars>>

\* lines 5-6, 21-23 and 30-31
InitQMC ==
    /\ ndet \in 1..MaxNdet
    /\ full_h \in {Coupled(ndet), Sparse(ndet)}
    /\ timestep \in Timesteps
    /\ det_thresh = DetThresh
    /\ nwalk_init \in InitWalkers
    /\ totwalkers = TotWalkers
    /\ shift = InitShift
    /\ vary_shift = FALSE
    /\ walkers = <<(<<0, nwalk_init>>)>>
    /\ nw = nwalk_init
    /\ spawned_walkers = <<>>
    /\ iters_done = 0 /\ iter_curr = 0 /\ items = <<>> /\ sweep_pos = 0
    /\ det_ind = 0 /\ det_amp = <<0, 1>> /\ nspawn = 0 /\ spawn_attempt = 0
    /\ spawn_ind = 0 /\ ref_weight = <<0, 1>> /\ nocc_dets = 0
    /\ cycle_en_num = <<0, 1>> /\ cycle_en_denom = <<0, 1>> /\ deleted = {}
    /\ qpc = "iter_head"
    /\ ExchangeIdle
    /\ GenIdle
    /\ HamIdle

NextQMC ==
    \/ BeginIteration
    \/ EndLoop
    \/ ProcessDet
    \/ RoundNotNeeded
    \/ RoundUp
    \/ RoundDown
    \/ SpawnDraw
    \/ Resample
    \/ SpawnAdd
    \/ Death
    \/ Annihilate
    \/ PeriodicControl
    \/ SkipControl

SpecQMC == InitQMC /\ [][NextQMC]_vars

\* the script keeps running, and a fair stream of draws leaves a resampling
\* loop that some draw leaves
FairSpecQMC == SpecQMC /\ WF_vars(NextQMC)

----------------------------------------------------------------------------
\* Claims

\* the position (Python index) at which the element xdet[xind] stands in sorted(xdet)
SortedIndexOfChanged ==
    Cardinality({v \in Elems(xdet) : v < At(xdet, xind)})

\* C1: for a list of distinct integers that is ascending apart from the element
\* at ind, elec_exchange_ops terminates (its loop never leaves the list and
\* makes fewer swaps than the list is long) and returns |ind - j|, j being the
\* position of det[ind] in sorted(det).
C1_ExchangeCount ==
    /\ xpc # "IndexError"
    /\ xpc = "loop" => xperm < Len(xdet)
    /\ xpc = "returned" =>
          /\ xperm = Abs(xind - SortedIndexOfChanged)
          /\ elec_exchange_ops(xdet, xind) = xperm

\* C1 witness: an interior element was moved two places to the left
C1_Witness ==
    /\ xpc = "returned" /\ xperm = 2 /\ step = -1
    /\ xind > 0 /\ xind < Len(xdet) - 1

\* the numbers of occupied and of unoccupied spin-orbitals of det
NOcc == Len(det)
NUnocc == 2 * NBasis - Len(det)

\* C2: the determinant excit_gen returns is ascending without duplicates, as
\* long as det, and differs from det in exactly one orbital for a single and
\* in exactly two for a double; det is as it was at the call.
C2_ExcitedDeterminant ==
    /\ det = det0
    /\ gpc = "returned" =>
          LET k == IF single THEN 1 ELSE 2
          IN  /\ IsSorted(excited_det)
              /\ Len(excited_det) = Len(det0)
              /\ Elems(excited_det) \subseteq Orbs
              /\ Cardinality(Elems(det0) \ Elems(excited_det)) = k
              /\ Cardinality(Elems(excited_det) \ Elems(det0)) = k

\* C2 witness: a double excitation was returned
C2_Witness ==
    /\ gpc = "returned" /\ ~single
    /\ NOcc >= 2 /\ NUnocc >= 2
    /\ orb_from_2 < orb_from /\ orb_to < orb_to_2

Reversed(t) == [k \in 1..Len(t) |-> t[Len(t) + 1 - k]]

\* C3: the descriptor and parity calc_excit_mat_parity computes from det and
\* the excited determinant are those of excit_gen, or the descriptor with
\* one tuple reversed and the opposite parity, or the descriptor with both
\* tuples reversed and the same parity; the assertion of
\* calc_excit_mat_parity never fails there.
C3_RoundTrip ==
    /\ gpc = "AssertionError" => draws = <<>>
    /\ gpc = "recomputed" =>
          LET from == excit_mat[1]
              to == excit_mat[2]
          IN  \/ excit_mat_2 = excit_mat /\ parity_2 = parity
              \/ /\ excit_mat_2 # excit_mat
                 /\ \/ excit_mat_2 = <<Reversed(from), to>>
                    \/ excit_mat_2 = <<from, Reversed(to)>>
                 /\ parity_2 = -parity
              \/ /\ excit_mat_2 = <<Reversed(from), Reversed(to)>>
                 /\ parity_2 = parity

\* C3 witness: a double whose "from" orbitals excit_gen drew in descending
\* order, recomputed with the opposite parity
C3_Witness ==
    /\ gpc = "recomputed" /\ ~single
    /\ excit_mat_2 = <<Reversed(excit_mat[1]), excit_mat[2]>>
    /\ excit_mat_2 # excit_mat
    /\ parity_2 = -parity /\ parity = 1

\* every accepted sequence of draws from d, <<ind, orb_to>> for a single
AcceptedSingles(d) ==
    {s \in (0..(Len(d) - 1)) \X Orbs : ~FirstRejected(d, s[2])}

\* the second draws accepted after the first draws s
AcceptedSeconds(d, s) ==
    LET ed == Substitute(d, s[1], s[2]).det
    IN  {t \in (0..(Len(ed) - 1)) \X Orbs :
            ~SecondRejected(ed, At(d, s[1]), s[2], At(ed, t[1]), t[2])}

\* the determinant a sequence of accepted draws leads to
SingleOutcome(d, s) == Substitute(d, s[1], s[2]).det
DoubleOutcome(d, s, t) == Substitute(SingleOutcome(d, s), t[1], t[2]).det

\* for every determinant, the outcome of every accepted sequence of draws
SingleOutcomes ==
    [d \in Dets |-> [s \in AcceptedSingles(d) |-> SingleOutcome(d, s)]]

DoubleOutcomes ==
    [d \in Dets |->
        [q \in UNION {{<<s, t>> : t \in AcceptedSeconds(d, s)} :
                            s \in AcceptedSingles(d)}
            |-> DoubleOutcome(d, q[1], q[2])]]

Image(f) == {f[x] : x \in DOMAIN f}

\* for every determinant, the numbers of accepted second draws met after the
\* accepted first draws, and the numbers of distinct outcomes
SecondCounts ==
    [d \in Dets |->
        {Cardinality(AcceptedSeconds(d, s)) : s \in AcceptedSingles(d)}]
DistinctSingles == [d \in Dets |-> Cardinality(Image(SingleOutcomes[d]))]
DistinctDoubles == [d \in Dets |-> Cardinality(Image(DoubleOutcomes[d]))]

\* C4: with n occupied and m unoccupied spin-orbitals there are n*m accepted
\* sequences of draws for a single and, after each of them, (n-1)*(m-1)
\* accepted second draws; a single-excited determinant comes from exactly 1
\* sequence and a double-excited one from exactly 4, so that the reported
\* probability is the share of the sequences that lead to the returned
\* determinant (times the probability of the rank), and summed over the
\* distinct determinants of the rank it gives p_single, resp. 1 - p_single.
C4_GenerationProbability ==
    gpc = "returned" =>
        LET n == NOcc
            m == NUnocc
            singles == SingleOutcomes[det]
            doubles == DoubleOutcomes[det]
        IN  /\ Cardinality(DOMAIN singles) = n * m
            /\ single =>
                  LET from == {s \in DOMAIN singles : singles[s] = excited_det}
                  IN  /\ from = {draws}
                      /\ prob = RMul(p_single, Rat(Cardinality(from), n * m))
                      /\ RMul(prob, RInt(DistinctSingles[det])) = p_single
            /\ ~single =>
                  LET from == {q \in DOMAIN doubles : doubles[q] = excited_det}
                      total == n * m * (n - 1) * (m - 1)
                  IN  /\ SecondCounts[det] = {(n - 1) * (m - 1)}
                      /\ Cardinality(DOMAIN doubles) = total
                      /\ <<(<<draws[1], draws[2]>>), (<<draws[3], draws[4]>>)>> \in from
                      /\ Cardinality(from) = 4
                      /\ prob = RMul(RSub(RInt(1), p_single), Rat(4, total))
                      /\ RMul(prob, RInt(DistinctDoubles[det]))
                            = RSub(RInt(1), p_single)

\* C4 witness: a double from a determinant with three occupied and three
\* unoccupied spin-orbitals, reported with probability (1 - 1/10)/9
C4_Witness ==
    /\ gpc = "returned" /\ ~single
    /\ NOcc = 3 /\ NUnocc = 3
    /\ prob = <<1, 10>>

\* C5: calc_excit_mat_parity of two identical determinants returns None as
\* the descriptor.
C5_IdenticalGivesNone ==
    (gpc = "calc_returned" /\ pair = det) => excit_mat_2 = None

\* the sum of f[x] over the members x of a finite set
RECURSIVE SetSum(_, _)
SetSum(f(_), S) ==
    IF S = {} THEN 0
    ELSE LET x == CHOOSE y \in S : TRUE IN f(x) + SetSum(f, S \ {x})

\* the Slater-Condon value of a descriptor, from the integrals
ReferenceElement(d, em) ==
    LET occ == Elems(d)
        Coulomb(pq) == Entry(h2, <<pq[1], pq[1], pq[2], pq[2]>>)
                          - Entry(h2, <<pq[1], pq[2], pq[2], pq[1]>>)
        OneBody(p) == Entry(h1, <<p, p>>)
    IN  IF em = None
        THEN nn + SetSum(OneBody, occ)
                + SetSum(Coulomb, {pq \in occ \X occ : pq[1] < pq[2]})
        ELSE IF Len(em[1]) = 1
        THEN LET i == em[1][1]
                 a == em[2][1]
                 Term(q) == Entry(h2, <<i, a, q, q>>) - Entry(h2, <<i, q, q, a>>)
             IN  Entry(h1, <<i, a>>) + SetSum(Term, occ)
        ELSE IF Len(em[1]) = 2
        THEN LET i == em[1][1]
                 j == em[1][2]
                 a == em[2][1]
                 b == em[2][2]
             IN  Entry(h2, <<i, a, j, b>>) - Entry(h2, <<i, b, j, a>>)
        ELSE 0

\* C6: slater_condon returns the parity (1 when the parity is None) times the
\* Slater-Condon value of the descriptor: the diagonal sum for no
\* descriptor, the single and the double formula, and exactly 0 for a
\* descriptor of rank above 2 whatever the parity.
C6_SlaterCondon ==
    hpc = "returned" =>
        LET sign == IF sparity = ParityNone THEN 1 ELSE sparity
            rank == IF sexcit_mat = None THEN 0 ELSE Len(sexcit_mat[1])
        IN  /\ (sexcit_mat = None \/ rank \in {1, 2}) =>
                  hel = sign * ReferenceElement(sdet, sexcit_mat)
            /\ rank > 2 => hel = 0

\* C6 witness: a double with a non-zero exchange integral and parity -1
C6_Witness ==
    /\ hpc = "returned"
    /\ sexcit_mat # None /\ Len(sexcit_mat[1]) = 2
    /\ sparity = -1
    /\ Entry(h2, <<sexcit_mat[1][1], sexcit_mat[2][2],
                   sexcit_mat[1][2], sexcit_mat[2][1]>>) # 0
    /\ hel # 0

\* C7: from the population {0: nwalk_init}, for every dimension of the
\* Hamiltonian and every parameter, a run with fair draws makes its max_iter
\* iterations and ends.
C7_Terminates == <>(qpc = "done")

IsZero(w) == w[1] = 0

\* C8: after annihilation no entry of walkers has weight exactly zero.
C8_NoZeroWeight ==
    qpc = "control" => \A n \in 1..Len(walkers) : ~IsZero(walkers[n][2])

\* C8 as amended: an entry whose weight is exactly zero when a sweep begins
\* is deleted by stochastic rounding in that sweep: it is never the amplitude
\* of a walker count, a spawn or a death step, and at the end of the sweep,
\* before annihilation, walkers does not hold it.
C8_ZeroWeightRemoved ==
    /\ qpc \in {"spawn", "resample"} => ~IsZero(det_amp)
    /\ qpc = "sweep" =>
          \A n \in 1..(sweep_pos - 1) :
              IsZero(items[n][2]) =>
                  /\ items[n][1] \in deleted
                  /\ ~DictHas(walkers, items[n][1])

\* C8 witness: a sweep that began with an entry of weight zero is over
C8_Witness ==
    /\ qpc = "sweep" /\ sweep_pos > Len(items)
    /\ \E n \in 1..Len(items) : IsZero(items[n][2])
    /\ timestep # <<0, 1>>

\* the determinants of the snapshot that rounding did not delete
Kept == DictKeys(items) \ deleted

\* C9: with timestep = 0, after the sweep and annihilation walkers is the map
\* of the start of the iteration restricted to the determinants rounding did
\* not delete.
C9_ZeroTimestepIdentity ==
    (qpc = "control" /\ timestep = <<0, 1>>) =>
        /\ DictKeys(walkers) = Kept
        /\ \A k \in Kept : DictGet(walkers, k) = DictGet(items, k)

\* C9 as amended: with timestep = 0, after the sweep and annihilation every
\* determinant rounding did not delete has the weight it had at the start of
\* the iteration, and every other entry of walkers (a target of a spawning
\* attempt) has weight exactly zero.
C9_ZeroTimestepWeights ==
    (qpc = "control" /\ timestep = <<0, 1>>) =>
        /\ Kept \subseteq DictKeys(walkers)
        /\ \A k \in Kept : DictGet(walkers, k) = DictGet(items, k)
        /\ \A k \in DictKeys(walkers) \ Kept : IsZero(DictGet(walkers, k))

\* C9 witness: with timestep = 0, one walker below the threshold was kept
\* with its weight, one entry was deleted and one entry of weight zero added
C9_Witness ==
    /\ qpc = "control" /\ timestep = <<0, 1>>
    /\ DictHas(walkers, 0) /\ RLt(RAbs(DictGet(walkers, 0)), det_thresh)
    /\ deleted # {}
    /\ DictKeys(walkers) \ DictKeys(items) # {}

\* C10: a walker below the threshold that rounding keeps is used, for the
\* walker count, spawning and death, with an amplitude of magnitude
\* det_thresh and the sign of its weight; a walker at or above the threshold
\* is used with its weight and is not deleted.
C10_RoundingKeepsSign ==
    qpc \in {"spawn", "resample"} =>
        LET w == items[sweep_pos][2]
        IN  IF RLt(RAbs(w), det_thresh)
            THEN RAbs(det_amp) = det_thresh /\ RSign(det_amp) = RSign(w)
            ELSE det_amp = w /\ det_ind \notin deleted

\* the amplitude a walker of weight w has after stochastic rounding kept it
RoundedAmp(w) ==
    IF RLt(chi_fraction(w), <<1, 1>>) THEN PromotedAmp(w) ELSE w

\* the death term timestep*(H[d,d] - H[0,0] - shift)*a
DeathTerm(d, a) ==
    RMul(RMul(timestep, RSub(RInt(full_h[<<d, d>>] - full_h[<<0, 0>>]), shift)),
         a)

\* C11: during the sweep and before annihilation, every determinant of the
\* snapshot that was processed and survived stochastic rounding is stored
\* with the weight a - timestep*(H[d,d] - H[0,0] - shift)*a, a being its
\* amplitude after rounding (the promoted one if it was promoted).
C11_DeathFromRoundedWeight ==
    qpc = "sweep" =>
        \A n \in 1..(sweep_pos - 1) :
            LET d == items[n][1]
                a == RoundedAmp(items[n][2])
            IN  d \notin deleted =>
                    /\ DictHas(walkers, d)
                    /\ DictGet(walkers, d) = RSub(a, DeathTerm(d, a))

\* the weight a dictionary holds for k, 0 if it holds none
WeightOr0(dct, k) == IF DictHas(dct, k) THEN DictGet(dct, k) ELSE <<0, 1>>

\* the weight a walker has at the start of the iteration, as an amplitude
StartWeight(w) == w

\* the sweep over the snapshot, the amplitude that the walker count, spawning
\* and death use for a walker of start weight w being RoundedAmp(w) if
\* rounded and StartWeight(w) if not: the snapshot
\* holds each determinant once; the determinant being processed is the next
\* entry of the snapshot; energy accumulation and rounding read its start
\* weight and spawning and death read that amplitude; no weight is merged or
\* inserted during the sweep (an entry not yet through its death step still
\* has its start weight, and walkers has no determinant the snapshot lacks)
SnapshotSweep(rounded) ==
    qpc \in {"sweep", "round", "spawn", "resample"} =>
        /\ \A m, n \in 1..Len(items) : items[m][1] = items[n][1] => m = n
        /\ DictKeys(walkers) = DictKeys(items) \ deleted
        /\ \A n \in sweep_pos..Len(items) :
              DictGet(walkers, items[n][1]) = items[n][2]
        /\ qpc # "sweep" =>
              /\ sweep_pos \in 1..Len(items)
              /\ det_ind = items[sweep_pos][1]
              /\ det_ind \notin deleted
        /\ qpc = "round" => det_amp = items[sweep_pos][2]
        /\ qpc \in {"spawn", "resample"} =>
              det_amp = IF rounded THEN RoundedAmp(items[sweep_pos][2])
                        ELSE StartWeight(items[sweep_pos][2])

\* a spawning attempt adds its weight to the buffer entry of its target and
\* leaves the population alone
SpawnStep ==
    (qpc = "resample" /\ qpc' = "spawn") =>
        /\ walkers' = walkers
        /\ DictKeys(spawned_walkers') = DictKeys(spawned_walkers) \cup {spawn_ind}
        /\ \A t \in DictKeys(spawned_walkers') :
              DictGet(spawned_walkers', t) =
                  IF t = spawn_ind
                  THEN RAdd(WeightOr0(spawned_walkers, t),
                            SpawnWeight(det_ind, t, det_amp, nspawn))
                  ELSE DictGet(spawned_walkers, t)

\* annihilation happens once the sweep is past the last entry of the
\* snapshot, and gives each target its weight of after the sweep (0 if it has
\* none) plus the weight the buffer holds for it
AnnihilateStep ==
    (qpc = "sweep" /\ qpc' = "control") =>
        /\ sweep_pos > Len(items)
        /\ DictKeys(walkers') = DictKeys(walkers) \cup DictKeys(spawned_walkers)
        /\ \A t \in DictKeys(walkers') :
              DictGet(walkers', t) =
                  RAdd(WeightOr0(walkers, t), WeightOr0(spawned_walkers, t))

\* C12: each determinant of the snapshot is processed once, every amplitude
\* the sweep reads (energy accumulation, rounding, spawning, death) is the
\* weight the determinant had at the start of the iteration, spawned weight
\* is merged only after the sweep, and annihilation gives each target its
\* weight of after the sweep plus the sum of the weights spawned onto it.
C12_SnapshotStartWeights ==
    /\ [](SnapshotSweep(FALSE))
    /\ [][SpawnStep]_vars
    /\ [][AnnihilateStep]_vars

\* C12 as amended: as C12, but the amplitude that the walker count, spawning
\* and the death term read is the one stochastic rounding made of the start
\* weight: the start weight for a walker at or above the threshold, the
\* promoted amplitude for a walker below it that was kept.
C12_SnapshotRoundedWeights ==
    /\ [](SnapshotSweep(TRUE))
    /\ [][SpawnStep]_vars
    /\ [][AnnihilateStep]_vars

\* C12 witness: in a second iteration with two determinants in the snapshot,
\* one of them kept below the threshold, annihilation has added buffered
\* weight to a determinant that survived the sweep
C12_Witness ==
    /\ qpc = "control" /\ iters_done = 1
    /\ Len(items) >= 2
    /\ \E n \in 1..Len(items) :
          /\ items[n][1] \notin deleted
          /\ RLt(RAbs(items[n][2]), det_thresh)
    /\ \E t \in Kept :
          /\ DictHas(spawned_walkers, t)
          /\ ~IsZero(DictGet(spawned_walkers, t))

\* excit_gen is in a resampling loop that no draw can leave: the first loop
\* with no unoccupied spin-orbital, or the second loop with fewer than two
\* occupied or fewer than two unoccupied spin-orbitals
SpaceExhausted ==
    \/ gpc = "first_loop" /\ 2 * NBasis - Len(det0) = 0
    \/ gpc = "second_loop" /\ (Len(det0) < 2 \/ 2 * NBasis - Len(det0) < 2)

\* a step of excit_gen that leaves its resampling loops
LeaveLoop == NextExcit /\ gpc' \notin {"first_loop", "second_loop"}

\* C13: when no valid orbital choice exists, the resampling loop of excit_gen
\* is left after a bounded number of retries (to signal that the excitation
\* space is exhausted): in such a loop a step that leaves the loop exists.
C13_BoundedResampling == SpaceExhausted => ENABLED LeaveLoop

\* C14: calc_excit_mat_parity called with two sorted duplicate-free
\* determinants of different lengths returns no descriptor and no parity: it
\* fails its assertion that as many orbitals are vacated as newly occupied.
C14_LengthMismatchAsserts ==
    (gpc \in {"calc_returned", "AssertionError"} /\ Len(det) # Len(pair)) =>
        /\ gpc = "AssertionError"
        /\ excit_mat_2 = None
        /\ parity_2 = ParityNone

\* C14 witness: the call failed for two determinants of different lengths
\* that share an orbital and each hold an orbital the other lacks
C14_Witness ==
    /\ gpc = "AssertionError"
    /\ Len(det) # Len(pair)
    /\ Elems(det) \cap Elems(pair) # {}
    /\ Elems(det) \ Elems(pair) # {}
    /\ Elems(pair) \ Elems(det) # {}

\* the spin of a spin-orbital: 0 for the first nbasis labels, 1 for the others
Spin(p) == IF p < NBasis THEN 0 ELSE 1

\* C15: after each record read, h1 is symmetric, h2[p,q,r,s] is equal to
\* h2[q,p,r,s], h2[p,q,s,r] and h2[r,s,p,q] for all spin-orbitals (the full
\* 8-fold symmetry, these three exchanges generating it), and h2[p,q,r,s] is
\* 0 whenever p and q, or r and s, differ in spin. The entries h1 and h2 do
\* not hold are 0.0 and the ones they hold are not; each exchange is its own
\* inverse, so two entries that differ include one that is held, and it is
\* enough to compare every entry held with its images.
C15_IntegralSymmetry ==
    /\ \A key \in DOMAIN h1 :
          /\ h1[key] # 0
          /\ h1[key] = Entry(h1, <<key[2], key[1]>>)
    /\ \A key \in DOMAIN h2 :
          LET v == h2[key]
              p == key[1]
              q == key[2]
              r == key[3]
              s == key[4]
          IN  /\ v # 0
              /\ v = Entry(h2, <<q, p, r, s>>)
              /\ v = Entry(h2, <<p, q, s, r>>)
              /\ v = Entry(h2, <<r, s, p, q>>)
              /\ Spin(p) = Spin(q) /\ Spin(r) = Spin(s)

\* C15 witness: the whole file is read; the second record has overwritten
\* every entry of the first, a two-electron integral over three different
\* orbitals (nothing else holds a value, and every value is the second one)
C15_Witness ==
    /\ hpc = "loaded"
    /\ nn = 0 /\ DOMAIN h1 = {}
    /\ \A key \in DOMAIN h2 : h2[key] = 2
    /\ \E key \in DOMAIN h2 :
          /\ Cardinality({key[1], key[2], key[3], key[4]}) = 3
          /\ key[1] # key[2] /\ key[3] # key[4]

====
